---- MODULE Spec2Model ----
(***************************************************************************)
(* Model of the node-graph editor of graph_gui: the Snarl<DemoNode> graph  *)
(* (src/src/node_graph.rs), the validated connect, the evaluator and the   *)
(* UI-originated edits that reach them (src/src/main.rs), and of the task  *)
(* dependency tracker TaskDag (src/src/execution_engine.rs).               *)
(*                                                                         *)
(* f64 node values are modelled as integers: every value in the model is a *)
(* small non-negative integer sum, which f64 represents exactly.           *)
(***************************************************************************)
EXTENDS Integers, Sequences, FiniteSets, TLC

\* Number of slots of the node slab that the model explores.
MaxNodes == 3
\* Largest literal the user drags into a Number node.
MaxVal == 1
\* Number of task identifiers of the snapshots given to TaskDag::new.
MaxTasks == 4
\* Number of nodes on the canvas at one time when the node editor runs
\* together with the Statistics pane.
MaxAppNodes == 2

NodeIds == 0 .. (MaxNodes - 1)
Literals == 0 .. MaxVal
TaskIds == 0 .. (MaxTasks - 1)

\* enum DemoNode: the four variants; "Vacant" is an empty slot of the slab.
DemoNode == {"Sink", "Number", "String", "Add"}
Vacant == [kind |-> "Vacant", val |-> 0]

VARIABLES
    snarl,      \* MyApp.snarl: [nodes: slot -> node, wires: set of wires]
    panicked,   \* TRUE once an unreachable!() was hit: the process is gone
    lastOp,     \* history: the last UI edit that ran and its outcome
    task_execution, \* MyApp.task_execution: Option<TaskDag>
    snapshot,   \* history: the graph the tracker was constructed from
    completed,  \* history: the tasks complete_task has removed since then
    lastTask    \* history: the last tracker call, its argument and result

taskVars == <<task_execution, snapshot, completed, lastTask>>
vars == <<snarl, panicked, lastOp, task_execution, snapshot, completed, lastTask>>

----------------------------------------------------------------------------
\* Generic helpers

RECURSIVE Perms(_)
Perms(S) ==
    IF S = {} THEN {<<>>}
    ELSE UNION {{<<x>> \o p : p \in Perms(S \ {x})} : x \in S}

RECURSIVE Ascending(_)
Ascending(S) ==
    IF S = {} THEN <<>>
    ELSE LET m == CHOOSE x \in S : \A y \in S : x <= y
         IN <<m>> \o Ascending(S \ {m})

----------------------------------------------------------------------------
\* Snarl accessors

\* snarl.node_ids(): the occupied slots.
node_ids(s) == {n \in NodeIds : s.nodes[n].kind # "Vacant"}

\* SnarlViewer::inputs
inputs(node) ==
    CASE node.kind = "Sink" -> 1
      [] node.kind = "Number" -> 0
      [] node.kind = "String" -> 0
      [] node.kind = "Add" -> 2
      [] OTHER -> 0

\* SnarlViewer::outputs
outputs(node) ==
    CASE node.kind = "Sink" -> 0
      [] node.kind = "Number" -> 1
      [] node.kind = "String" -> 1
      [] node.kind = "Add" -> 1
      [] OTHER -> 0

\* A wire joins output 0 of node `from` to input `input` of node `to`
\* (every node kind has at most one output, so the output index is always 0).
Wire(from, to, input) == [from |-> from, to |-> to, input |-> input]

\* snarl.in_pin(InPinId {node, input}).remotes
in_pin_remotes(s, node, input) ==
    {w.from : w \in {x \in s.wires : x.to = node /\ x.input = input}}

\* snarl.out_pin(OutPinId {node, output: 0}).remotes, projected on the node
out_pin_remote_nodes(s, node) ==
    {w.to : w \in {x \in s.wires : x.from = node}}

----------------------------------------------------------------------------
\* DemoNode::update

RECURSIVE SumVals(_, _)
SumVals(s, S) ==
    IF S = {} THEN 0
    ELSE LET x == CHOOSE y \in S : TRUE
         IN s.nodes[x].val + SumVals(s, S \ {x})

\* The value an Add node computes: the sum, over inputs 0 and 1, of the
\* values of the remotes of the input.
AddValue(node, s) ==
    SumVals(s, in_pin_remotes(s, node, 0)) + SumVals(s, in_pin_remotes(s, node, 1))

\* update hits unreachable!() when an Add input is wired to a Sink or a String.
update_panics(node, s) ==
    /\ s.nodes[node].kind = "Add"
    /\ \E idx \in 0 .. 1 : \E r \in in_pin_remotes(s, node, idx) :
           s.nodes[r].kind \in {"Sink", "String"}

\* Variant: the sum is stored whatever the variant of the node.
update_any_variant(node, s) ==
    [s EXCEPT !.nodes[node].val = AddValue(node, s)]

update(node, s) ==
    IF s.nodes[node].kind = "Add"
    THEN [s EXCEPT !.nodes[node].val = AddValue(node, s)]
    ELSE s

----------------------------------------------------------------------------
\* DemoViewer::as_petgraph, petgraph::algo::is_cyclic_directed, visit::Topo

as_petgraph(s) ==
    [nodes |-> node_ids(s),
     edges |-> {<<n, d>> \in node_ids(s) \X NodeIds :
                    outputs(s.nodes[n]) > 0 /\ d \in out_pin_remote_nodes(s, n)}]

Successors(graph, n) == {e[2] : e \in {x \in graph.edges : x[1] = n}}
Predecessors(graph, n) == {e[1] : e \in {x \in graph.edges : x[2] = n}}

RECURSIVE ReachFrom(_, _, _)
ReachFrom(graph, frontier, seen) ==
    LET next == (UNION {Successors(graph, n) : n \in frontier}) \ seen
    IN IF next = {} THEN seen ELSE ReachFrom(graph, next, seen \cup next)

\* Variant: a check that sees only a wire from a node to itself.
is_cyclic_self_loop_only(graph) ==
    \E n \in graph.nodes : <<n, n>> \in graph.edges

\* A back edge exists iff some node reaches itself along one or more edges.
is_cyclic_directed(graph) ==
    \E n \in graph.nodes : n \in ReachFrom(graph, {n}, {})

\* Variant: every neighbour is pushed, whether or not its predecessors are
\* ordered.
RECURSIVE TopoRun_eager(_, _, _)
TopoRun_eager(graph, tovisit, ordered) ==
    IF tovisit = <<>> THEN {<<>>}
    ELSE LET nix == tovisit[Len(tovisit)]
             rest == SubSeq(tovisit, 1, Len(tovisit) - 1)
         IN IF nix \in ordered THEN TopoRun_eager(graph, rest, ordered)
            ELSE LET ordered2 == ordered \cup {nix}
                 IN UNION {{<<nix>> \o o :
                               o \in TopoRun_eager(graph, rest \o p, ordered2)} :
                              p \in Perms(Successors(graph, nix))}

\* Topo::next: pop the stack; skip a node already ordered; otherwise order it
\* and push each neighbour all of whose predecessors are ordered.  The order
\* in which the neighbours are pushed is the iteration order of the wire
\* hash set, which is unspecified: every order is a possible run.
RECURSIVE TopoRun(_, _, _)
TopoRun(graph, tovisit, ordered) ==
    IF tovisit = <<>> THEN {<<>>}
    ELSE LET nix == tovisit[Len(tovisit)]
             rest == SubSeq(tovisit, 1, Len(tovisit) - 1)
         IN IF nix \in ordered THEN TopoRun(graph, rest, ordered)
            ELSE LET ordered2 == ordered \cup {nix}
                     ready == {m \in Successors(graph, nix) :
                                  Predecessors(graph, m) \subseteq ordered2}
                 IN UNION {{<<nix>> \o o : o \in TopoRun(graph, rest \o p, ordered2)} :
                              p \in Perms(ready)}

RECURSIVE Reverse(_)
Reverse(q) == IF q = <<>> THEN <<>> ELSE Reverse(Tail(q)) \o <<Head(q)>>

\* Variant: the nodes are visited in the reverse of a topological order.
Topo_reversed(graph) ==
    {Reverse(o) : o \in TopoRun(graph,
                     Ascending({n \in graph.nodes : Predecessors(graph, n) = {}}),
                     {})}

\* Variant: the nodes are visited in any order, whatever the edges.
Topo_any_order(graph) == Perms(graph.nodes)

\* Topo::new: the stack starts with the nodes without incoming edges, in
\* node index order.
Topo(graph) ==
    TopoRun(graph,
            Ascending({n \in graph.nodes : Predecessors(graph, n) = {}}),
            {})

----------------------------------------------------------------------------
\* DemoViewer::evaluate

\* The while loop: update the visited nodes in order; stop at a panic.
RECURSIVE UpdateAll(_, _)
UpdateAll(order, s) ==
    IF order = <<>> THEN [snarl |-> s, panic |-> FALSE]
    ELSE IF update_panics(Head(order), s) THEN [snarl |-> s, panic |-> TRUE]
    ELSE UpdateAll(Tail(order), update(Head(order), s))

\* Variant: only the start node is updated, nothing is propagated.
evaluate_start_only(s, start) ==
    IF start \in NodeIds THEN {UpdateAll(<<start>>, s)}
    ELSE {[snarl |-> s, panic |-> FALSE]}

\* The set of outcomes of evaluate(snarl, start), one per visit order.
evaluate(s, start) ==
    {UpdateAll(order, s) : order \in Topo(as_petgraph(s))}

----------------------------------------------------------------------------
\* SnarlViewer::connect for DemoViewer

\* Variant: the last arm accepts whatever is wired into an Add.
connect_validate_any_add(from_node, to_node) ==
    CASE from_node.kind = "Sink" -> "unreachable"
      [] to_node.kind = "Sink" -> "ok"
      [] to_node.kind = "Number" -> "unreachable"
      [] to_node.kind = "String" -> "unreachable"
      [] OTHER -> "ok"

\* The match on (source node, destination node): "unreachable" is a panic.
connect_validate(from_node, to_node) ==
    CASE from_node.kind = "Sink" -> "unreachable"
      [] to_node.kind = "Sink" -> "ok"
      [] to_node.kind = "Number" -> "unreachable"
      [] to_node.kind = "String" -> "unreachable"
      [] from_node.kind = "Number" /\ to_node.kind = "Add" -> "ok"
      [] from_node.kind = "Add" /\ to_node.kind = "Add" -> "ok"
      [] OTHER -> "unreachable"

\* Variant: the new wire is added without removing the wires into the input.
connect_temp_graph_keep(s, from, to, input) ==
    [s EXCEPT !.wires = s.wires \cup {Wire(from, to, input)}]

\* Variant: every wire into the destination node is removed, whatever its
\* input.
connect_temp_graph_clear_node(s, from, to, input) ==
    [s EXCEPT !.wires =
        {w \in s.wires : w.to # to} \cup {Wire(from, to, input)}]

\* temp_graph: a clone without the wires into the input, plus the new wire.
connect_temp_graph(s, from, to, input) ==
    [s EXCEPT !.wires =
        (s.wires \ {Wire(r, to, input) : r \in in_pin_remotes(s, to, input)})
            \cup {Wire(from, to, input)}]

\* Variant: the wires are edited in the snarl itself instead of a clone, and a
\* rejection takes back only the new wire.
connect_in_place(s, from, to, input) ==
    IF connect_validate(s.nodes[from], s.nodes[to]) = "unreachable"
    THEN {[snarl |-> s, panic |-> TRUE, outcome |-> "panic"]}
    ELSE LET temp_graph == connect_temp_graph(s, from, to, input)
         IN IF is_cyclic_directed(as_petgraph(temp_graph))
            THEN {[snarl |-> [temp_graph EXCEPT !.wires = @ \ {Wire(from, to, input)}],
                   panic |-> FALSE, outcome |-> "cycle"]}
            ELSE IF update_panics(to, temp_graph)
            THEN {[snarl |-> temp_graph, panic |-> TRUE, outcome |-> "panic"]}
            ELSE {[snarl |-> r.snarl, panic |-> r.panic,
                   outcome |-> IF r.panic THEN "panic" ELSE "ok"] :
                      r \in evaluate(update(to, temp_graph), to)}

\* The set of outcomes of connect: the snarl afterwards, whether the call
\* panicked, and how it ended.
connect(s, from, to, input) ==
    IF connect_validate(s.nodes[from], s.nodes[to]) = "unreachable"
    THEN {[snarl |-> s, panic |-> TRUE, outcome |-> "panic"]}
    ELSE LET temp_graph == connect_temp_graph(s, from, to, input)
         IN IF is_cyclic_directed(as_petgraph(temp_graph))
            THEN {[snarl |-> s, panic |-> FALSE, outcome |-> "cycle"]}
            ELSE IF update_panics(to, temp_graph)
            THEN {[snarl |-> temp_graph, panic |-> TRUE, outcome |-> "panic"]}
            ELSE {[snarl |-> r.snarl, panic |-> r.panic,
                   outcome |-> IF r.panic THEN "panic" ELSE "ok"] :
                      r \in evaluate(update(to, temp_graph), to)}

----------------------------------------------------------------------------
\* TaskDag (execution_engine.rs)

\* Option<TaskDag>: None, or Some(TaskDag {outstanding}), where outstanding
\* maps each tracked task to the set of dependencies it still waits for.
None == [some |-> FALSE, outstanding |-> [t \in {} |-> {}]]
Some(outstanding) == [some |-> TRUE, outstanding |-> outstanding]

\* Variant: the neighbours are taken in the outgoing direction.
TaskDag_new_outgoing(graph) ==
    [t \in graph.nodes |-> Successors(graph, t)]

\* TaskDag::new: every node of the graph, with the nodes that have an edge
\* into it.
TaskDag_new(graph) ==
    [t \in graph.nodes |-> Predecessors(graph, t)]

\* TaskDag::ready_tasks
ready_tasks(outstanding) ==
    {t \in DOMAIN outstanding : outstanding[t] = {}}

\* TaskDag::blocked_tasks
blocked_tasks(outstanding) ==
    {t \in DOMAIN outstanding : outstanding[t] # {}}

\* Variant: the entry of the completed task is removed and the remaining sets
\* are left as they are.
complete_task_leaves_dependents(outstanding, task) ==
    IF task \notin DOMAIN outstanding
    THEN [outstanding |-> outstanding, returned |-> {}, panic |-> TRUE]
    ELSE [outstanding |-> [t \in DOMAIN outstanding \ {task} |-> outstanding[t]],
          returned |-> {},
          panic |-> FALSE]

\* Variant: the completed task is inserted into the remaining sets instead of
\* removed from them.
complete_task_inserts(outstanding, task) ==
    IF task \notin DOMAIN outstanding
    THEN [outstanding |-> outstanding, returned |-> {}, panic |-> TRUE]
    ELSE LET removed == [t \in DOMAIN outstanding \ {task} |-> outstanding[t]]
         IN [outstanding |-> [t \in DOMAIN removed |-> removed[t] \cup {task}],
             returned |-> {},
             panic |-> FALSE]

\* Variant: the entry of the completed task is looked up, not removed.
complete_task_keeps_entry(outstanding, task) ==
    IF task \notin DOMAIN outstanding
    THEN [outstanding |-> outstanding, returned |-> {}, panic |-> TRUE]
    ELSE LET after == [t \in DOMAIN outstanding |-> outstanding[t] \ {task}]
         IN [outstanding |-> after,
             returned |-> {t \in DOMAIN outstanding :
                              task \in outstanding[t] /\ after[t] = {}},
             panic |-> FALSE]

\* Variant: every task whose set is empty after the call is returned, whether
\* or not the completed task was in it.
complete_task_returns_all_empty(outstanding, task) ==
    IF task \notin DOMAIN outstanding
    THEN [outstanding |-> outstanding, returned |-> {}, panic |-> TRUE]
    ELSE LET removed == [t \in DOMAIN outstanding \ {task} |-> outstanding[t]]
             after == [t \in DOMAIN removed |-> removed[t] \ {task}]
         IN [outstanding |-> after,
             returned |-> {t \in DOMAIN removed : after[t] = {}},
             panic |-> FALSE]

\* TaskDag::complete_task: the map afterwards, the set returned, and whether
\* the expect() on the removed entry panicked.
complete_task(outstanding, task) ==
    IF task \notin DOMAIN outstanding
    THEN [outstanding |-> outstanding, returned |-> {}, panic |-> TRUE]
    ELSE LET removed == [t \in DOMAIN outstanding \ {task} |-> outstanding[t]]
             after == [t \in DOMAIN removed |-> removed[t] \ {task}]
         IN [outstanding |-> after,
             returned |-> {t \in DOMAIN removed :
                              task \in removed[t] /\ after[t] = {}},
             panic |-> FALSE]

----------------------------------------------------------------------------
\* Snarl edits made by the UI

\* snarl.insert_node(pos, node): the node takes an unused slot of the slab.
insert_node(s, id, node) == [s EXCEPT !.nodes[id] = node]

\* snarl.remove_node(node): the node goes, and every wire touching it.
remove_node(s, node) ==
    [nodes |-> [s.nodes EXCEPT ![node] = Vacant],
     wires |-> {w \in s.wires : w.from # node /\ w.to # node}]

\* snarl.disconnect(from, to): the wire goes, if present.
disconnect(s, from, to, input) ==
    [s EXCEPT !.wires = s.wires \ {Wire(from, to, input)}]

\* Variant: the literal is written and evaluate is not called.
set_value_no_evaluate(s, node, value) ==
    {[snarl |-> [s EXCEPT !.nodes[node].val = value], panic |-> FALSE]}

\* The Number arm of show_output: the drag value writes the literal, then
\* evaluate runs.
set_value(s, node, value) ==
    evaluate([s EXCEPT !.nodes[node].val = value], node)

----------------------------------------------------------------------------
\* The state machine

\* The last edit: its name, its arguments (for connect, `remotes` is
\* to.remotes, the wires into the input when the call was made) and how it
\* ended.
Op(op, from, to, input, remotes, outcome) ==
    [op |-> op, from |-> from, to |-> to, input |-> input,
     remotes |-> remotes, outcome |-> outcome]

\* Stands for "no node" in an edit that has none (Option::None).
NoNode == MaxNodes

\* The last tracker call: its name, the task given and the set returned.
TaskOp(op, task, returned, outcome) ==
    [op |-> op, task |-> task, returned |-> returned, outcome |-> outcome]

\* A graph without nodes.
NoGraph == [nodes |-> {}, edges |-> {}]

Init ==
    /\ snarl = [nodes |-> [n \in NodeIds |-> Vacant], wires |-> {}]
    /\ panicked = FALSE
    /\ lastOp = Op("new", NoNode, NoNode, 0, {}, "ok")
    /\ task_execution = None
    /\ snapshot = NoGraph
    /\ completed = {}
    /\ lastTask = TaskOp("none", NoNode, {}, "ok")

\* graph_menu: the four buttons.
InsertNode ==
    /\ ~panicked
    /\ \E id \in NodeIds \ node_ids(snarl) :
       \E node \in {[kind |-> "Number", val |-> 0], [kind |-> "String", val |-> 0],
                    [kind |-> "Sink", val |-> 0], [kind |-> "Add", val |-> 0]} :
           /\ snarl' = insert_node(snarl, id, node)
           /\ lastOp' = Op("insert_node", NoNode, id, 0, {}, "ok")
    /\ UNCHANGED <<panicked, taskVars>>

\* node_menu: the Remove button.
RemoveNode ==
    /\ ~panicked
    /\ \E node \in node_ids(snarl) :
           /\ snarl' = remove_node(snarl, node)
           /\ lastOp' = Op("remove_node", NoNode, node, 0, {}, "ok")
    /\ UNCHANGED <<panicked, taskVars>>

\* The user drags a wire from an output pin to an input pin.
Connect ==
    /\ ~panicked
    /\ \E from \in node_ids(snarl), to \in node_ids(snarl) :
       \E input \in 0 .. 1 :
           /\ outputs(snarl.nodes[from]) > 0
           /\ input < inputs(snarl.nodes[to])
           /\ \E r \in connect(snarl, from, to, input) :
                  /\ snarl' = r.snarl
                  /\ panicked' = r.panic
                  /\ lastOp' = Op("connect", from, to, input,
                                  in_pin_remotes(snarl, to, input), r.outcome)
    /\ UNCHANGED taskVars

\* The user pulls a wire off: DemoViewer does not override disconnect, so the
\* wire is removed and nothing else runs.
Disconnect ==
    /\ ~panicked
    /\ \E w \in snarl.wires :
           /\ snarl' = disconnect(snarl, w.from, w.to, w.input)
           /\ lastOp' = Op("disconnect", w.from, w.to, w.input, {}, "ok")
    /\ UNCHANGED <<panicked, taskVars>>

\* The user drags the value of a Number node to another value.
SetValue ==
    /\ ~panicked
    /\ \E node \in node_ids(snarl) : \E value \in Literals :
           /\ snarl.nodes[node].kind = "Number"
           /\ value # snarl.nodes[node].val
           /\ \E r \in set_value(snarl, node, value) :
                  /\ snarl' = r.snarl
                  /\ panicked' = r.panic
                  /\ lastOp' = Op("set_value", node, node, 0, {},
                                  IF r.panic THEN "panic" ELSE "ok")
    /\ UNCHANGED taskVars

\* The user edits the text of a String node (texts are numbered 0 .. MaxVal):
\* the String arm of show_output writes it and calls nothing.
SetString ==
    /\ ~panicked
    /\ \E node \in node_ids(snarl) : \E value \in Literals :
           /\ snarl.nodes[node].kind = "String"
           /\ value # snarl.nodes[node].val
           /\ snarl' = [snarl EXCEPT !.nodes[node].val = value]
           /\ lastOp' = Op("set_string", node, node, 0, {}, "ok")
    /\ UNCHANGED <<panicked, taskVars>>

\* File > Eval.
Eval ==
    /\ ~panicked
    /\ \E r \in evaluate(snarl, NoNode) :
           /\ snarl' = r.snarl
           /\ panicked' = r.panic
           /\ lastOp' = Op(IF lastOp.op \in {"evaluate", "evaluate_again"}
                           THEN "evaluate_again" ELSE "evaluate",
                           NoNode, NoNode, 0, {},
                           IF r.panic THEN "panic" ELSE "ok")
    /\ UNCHANGED taskVars

Next ==
    \/ InsertNode
    \/ RemoveNode
    \/ Connect
    \/ Disconnect
    \/ SetValue
    \/ SetString
    \/ Eval

Spec == Init /\ [][Next]_vars

----------------------------------------------------------------------------
\* The tracker on its own: constructed from a snapshot, then driven by
\* complete_task calls

\* The acyclic graphs over the task identifiers.
Dags ==
    UNION {{[nodes |-> N, edges |-> E] :
               E \in {D \in SUBSET {e \in N \X N : e[1] # e[2]} :
                          ~is_cyclic_directed([nodes |-> N, edges |-> D])}} :
           N \in SUBSET TaskIds}

TrackerInit ==
    /\ snarl = [nodes |-> [n \in NodeIds |-> Vacant], wires |-> {}]
    /\ panicked = FALSE
    /\ lastOp = Op("new", NoNode, NoNode, 0, {}, "ok")
    /\ \E graph \in Dags :
           /\ snapshot = graph
           /\ task_execution = Some(TaskDag_new(graph))
    /\ completed = {}
    /\ lastTask = TaskOp("new", NoNode, {}, "ok")

\* One call task_dag.complete_task(task).
CompleteTaskOf(task) ==
    /\ ~panicked
    /\ task_execution.some
    /\ LET r == complete_task(task_execution.outstanding, task)
       IN /\ task_execution' = Some(r.outstanding)
          /\ panicked' = r.panic
          /\ completed' = IF r.panic THEN completed ELSE completed \cup {task}
          /\ lastTask' = TaskOp("complete_task", task, r.returned,
                                IF r.panic THEN "panic" ELSE "ok")
    /\ UNCHANGED <<snarl, lastOp, snapshot>>

\* A caller completes any task identifier, tracked or not.
CompleteTask ==
    \E task \in TaskIds : CompleteTaskOf(task)

TrackerNext == CompleteTask

TrackerSpec == TrackerInit /\ [][TrackerNext]_vars

\* A caller that works the tracker off: it completes tracked tasks only, and
\* whenever a task is ready it eventually completes a ready one.
CompleteReady ==
    \E task \in ready_tasks(task_execution.outstanding) : CompleteTaskOf(task)

CompleteBlocked ==
    \E task \in blocked_tasks(task_execution.outstanding) : CompleteTaskOf(task)

TrackerFairNext ==
    \/ CompleteReady
    \/ CompleteBlocked

TrackerFairSpec ==
    TrackerInit /\ [][TrackerFairNext]_vars /\ WF_vars(CompleteReady)

----------------------------------------------------------------------------
\* The application: the node editor together with the Statistics pane

\* Statistics pane: the "Calculate Task Dag" button.
CalculateTaskDag ==
    /\ ~panicked
    /\ snapshot' = as_petgraph(snarl)
    /\ task_execution' = Some(TaskDag_new(as_petgraph(snarl)))
    /\ completed' = {}
    /\ lastTask' = TaskOp("new", NoNode, {}, "ok")
    /\ UNCHANGED <<snarl, panicked, lastOp>>

\* Variant: the button is shown for every tracked task.
complete_offered_tracked(s, outstanding) ==
    node_ids(s) \cap DOMAIN outstanding

\* The nodes of the snarl for which the pane shows a "Complete" button.
complete_offered(s, outstanding) ==
    node_ids(s) \cap ready_tasks(outstanding)

\* Statistics pane: what the row of node id shows: the "Complete" button for
\* a ready task, "Blocked" for a blocked one, "Completed" for any other id.
status_label(outstanding, id) ==
    IF id \in ready_tasks(outstanding) THEN "Complete"
    ELSE IF id \in blocked_tasks(outstanding) THEN "Blocked"
    ELSE "Completed"

\* The nodes of the snarl whose row shows "Completed"; no row is drawn while
\* task_execution is None.
shown_completed(s, te) ==
    IF te.some
    THEN {id \in node_ids(s) : status_label(te.outstanding, id) = "Completed"}
    ELSE {}

\* Statistics pane: a "Complete" button is clicked.
CompleteButton ==
    \E id \in complete_offered(snarl, task_execution.outstanding) :
        CompleteTaskOf(id)

\* graph_menu, while fewer than MaxAppNodes nodes are on the canvas.
AppInsertNode ==
    /\ Cardinality(node_ids(snarl)) < MaxAppNodes
    /\ InsertNode

AppNext ==
    \/ AppInsertNode
    \/ RemoveNode
    \/ Connect
    \/ Disconnect
    \/ CalculateTaskDag
    \/ CompleteButton

\* The literal edits and Eval are left out: they change values only, and the
\* tracker reads nothing but node_ids and wires.
AppSpec == Init /\ [][AppNext]_vars

----------------------------------------------------------------------------
\* Vocabulary of the properties, stated on the wires themselves

\* The nodes reached from the set S by following wires forward, S included.
RECURSIVE ForwardFrom(_, _)
ForwardFrom(s, S) ==
    LET more == S \cup {w.to : w \in {x \in s.wires : x.from \in S}}
    IN IF more = S THEN S ELSE ForwardFrom(s, more)

downstream_closure(s, n) == ForwardFrom(s, {n})

\* Node n lies on a cycle: one of its wires leads to a node that reaches n.
OnCycle(s, n) ==
    \E w \in s.wires : w.from = n /\ n \in ForwardFrom(s, {w.to})

RECURSIVE WireSum(_, _)
WireSum(s, W) ==
    IF W = {} THEN 0
    ELSE LET w == CHOOSE x \in W : TRUE
         IN s.nodes[w.from].val + WireSum(s, W \ {w})

\* The cached result of an Add node is the sum of the values at the source
\* of each wire into it (an unconnected input adds nothing).
AddIsSum(s, n) ==
    s.nodes[n].kind = "Add" =>
        s.nodes[n].val = WireSum(s, {w \in s.wires : w.to = n})

Kind(n) == snarl.nodes[n].kind

----------------------------------------------------------------------------
\* C1: acyclicity. In every reachable state the node graph induced by the
\* wires has no cycle: no node reaches itself along one or more wires.
C1_Acyclic ==
    \A n \in NodeIds : ~OnCycle(snarl, n)

\* A connect that would have closed a cycle through two other wires was
\* rejected.
C1_Witness ==
    /\ lastOp.op = "connect" /\ lastOp.outcome = "cycle"
    /\ lastOp.from # lastOp.to
    /\ Cardinality(snarl.wires) >= 2

\* C2: transactional rejection. A connect that is rejected because it would
\* create a cycle leaves nodes, wires and values as they were before the call.
C2_RejectionChangesNothing ==
    [][(lastOp'.op = "connect" /\ lastOp'.outcome = "cycle") => snarl' = snarl]_vars

\* A rejected connect onto an input that another node occupies, whose wire
\* is still there.
C2_Witness ==
    /\ lastOp.op = "connect" /\ lastOp.outcome = "cycle"
    /\ \E r \in lastOp.remotes :
           /\ r # lastOp.from
           /\ Wire(r, lastOp.to, lastOp.input) \in snarl.wires

\* C3: single writer. In every reachable state every input port has at most
\* one incoming wire.
C3_SingleWriter ==
    \A n \in NodeIds : \A idx \in 0 .. 1 :
        Cardinality({w \in snarl.wires : w.to = n /\ w.input = idx}) <= 1

\* A connect succeeded onto an input that another node occupied.
C3_Witness ==
    /\ lastOp.op = "connect" /\ lastOp.outcome = "ok"
    /\ lastOp.remotes # {} /\ lastOp.from \notin lastOp.remotes
    /\ Wire(lastOp.from, lastOp.to, lastOp.input) \in snarl.wires

\* C4: type safety. In every reachable state every wire into an Add input
\* comes from a Number or an Add, and every wire ends at a Sink or an Add.
C4_TypeSafe ==
    \A w \in snarl.wires :
        /\ Kind(w.to) \in {"Sink", "Add"}
        /\ Kind(w.to) = "Add" => Kind(w.from) \in {"Number", "Add"}

\* A connect from a String to an Add input was attempted and left no wire,
\* while a String feeds a Sink.
C4_Witness ==
    /\ lastOp.op = "connect"
    /\ Kind(lastOp.from) = "String" /\ Kind(lastOp.to) = "Add"
    /\ Wire(lastOp.from, lastOp.to, lastOp.input) \notin snarl.wires
    /\ \E w \in snarl.wires : Kind(w.from) = "String" /\ Kind(w.to) = "Sink"

\* C5: connecting a String source to an input of an Add node is a recoverable
\* rejection: the call returns, no wire is added, and the program goes on.
C5_StringIntoAddIsRecoverable ==
    (/\ lastOp.op = "connect"
     /\ Kind(lastOp.from) = "String" /\ Kind(lastOp.to) = "Add")
        => (/\ ~panicked
            /\ Wire(lastOp.from, lastOp.to, lastOp.input) \notin snarl.wires)

\* C6: scoped propagation. An evaluate seeded at node n (the one connect runs
\* at its destination, the one a literal edit runs at the edited node) leaves
\* the value of every node outside downstream_closure(n) as it was.
C6_ScopedPropagation ==
    [][(lastOp'.op \in {"connect", "set_value"} /\ lastOp'.outcome = "ok")
          => \A n \in NodeIds \ downstream_closure(snarl', lastOp'.to) :
                 snarl'.nodes[n].val = snarl.nodes[n].val]_vars

\* C7: idempotent evaluation. An evaluate(None) that directly follows an
\* evaluate(None) leaves every node's value as the first one left it.
C7_EvaluateIdempotent ==
    [][lastOp'.op = "evaluate_again" => snarl' = snarl]_vars

\* Two evaluations in a row on a graph where an Add with a non-zero result
\* feeds another Add.
C7_Witness ==
    /\ lastOp.op = "evaluate_again"
    /\ \E w \in snarl.wires :
           /\ Kind(w.from) = "Add" /\ Kind(w.to) = "Add"
           /\ snarl.nodes[w.from].val > 0

\* C8: after a successful connect(src, dst), every Add node in
\* downstream_closure(dst node) holds the sum of the current values of the
\* nodes wired to its inputs.
C8_ConnectPropagates ==
    (lastOp.op = "connect" /\ lastOp.outcome = "ok")
        => \A n \in downstream_closure(snarl, lastOp.to) : AddIsSum(snarl, n)

\* A connect into an Add that feeds a second Add, which shows a non-zero sum.
C8_Witness ==
    /\ lastOp.op = "connect" /\ lastOp.outcome = "ok"
    /\ Kind(lastOp.to) = "Add"
    /\ \E n \in downstream_closure(snarl, lastOp.to) \ {lastOp.to} :
           Kind(n) = "Add" /\ snarl.nodes[n].val > 0

\* C9: after the literal of a Number node s is changed, every Add node in
\* downstream_closure(s) holds the sum of the current values of the nodes
\* wired to its inputs, the new value of s included.
C9_SetValuePropagates ==
    lastOp.op = "set_value"
        => \A n \in downstream_closure(snarl, lastOp.to) : AddIsSum(snarl, n)

\* A literal was changed to a non-zero value that reaches an Add through
\* another Add.
C9_Witness ==
    /\ lastOp.op = "set_value"
    /\ snarl.nodes[lastOp.to].val > 0
    /\ \E w \in snarl.wires :
           /\ Kind(w.from) = "Add" /\ Kind(w.to) = "Add"
           /\ w.from \in downstream_closure(snarl, lastOp.to)
           /\ snarl.nodes[w.to].val > 0

\* C10: after a disconnect of a wire into an Add node, that node and every
\* Add downstream of it hold the sum of the values of the remaining wired
\* inputs.
C10_DisconnectPropagates ==
    (lastOp.op = "disconnect" /\ Kind(lastOp.to) = "Add")
        => \A n \in downstream_closure(snarl, lastOp.to) : AddIsSum(snarl, n)

----------------------------------------------------------------------------
\* Vocabulary of the tracker properties

Outstanding == task_execution.outstanding
Tracked == DOMAIN task_execution.outstanding

\* C11: tracker conservation. After any sequence of complete_task calls,
\* ready_tasks() and blocked_tasks() are disjoint and their union is the task
\* set of the snapshot minus the completed tasks.
C11_Conservation ==
    task_execution.some =>
        /\ ready_tasks(Outstanding) \cap blocked_tasks(Outstanding) = {}
        /\ ready_tasks(Outstanding) \cup blocked_tasks(Outstanding)
               = snapshot.nodes \ completed

\* Two tasks are completed, one is ready and one is blocked.
C11_Witness ==
    /\ Cardinality(completed) = 2
    /\ ready_tasks(Outstanding) # {}
    /\ blocked_tasks(Outstanding) # {}

\* C12: complete_task(id) on a tracked task returns exactly the tasks that
\* were blocked before the call and are ready after it, that is the tasks
\* whose set held id and is empty once id is removed; a task that was ready
\* before the call is not returned.
C12_ReturnsNewlyReady ==
    [][(lastTask' # lastTask /\ lastTask'.op = "complete_task"
           /\ lastTask'.outcome = "ok")
          => /\ lastTask'.returned
                    = blocked_tasks(Outstanding) \cap ready_tasks(Outstanding')
             /\ lastTask'.returned
                    = {t \in Tracked \ {lastTask'.task} :
                          /\ lastTask'.task \in Outstanding[t]
                          /\ Outstanding[t] \ {lastTask'.task} = {}}
             /\ lastTask'.returned \cap ready_tasks(Outstanding) = {}]_vars

\* A call returned two tasks while a third, ready before the call, is still
\* ready and was not returned.
C12_Witness ==
    /\ lastTask.op = "complete_task" /\ lastTask.outcome = "ok"
    /\ Cardinality(lastTask.returned) = 2
    /\ \E t \in ready_tasks(Outstanding) \ lastTask.returned :
           \A e \in snapshot.edges : e[2] # t

\* The snapshot {A: [], B: [A], C: [A], D: [B, C]} with A, B, C, D = 0, 1, 2, 3.
Diamond ==
    [nodes |-> {0, 1, 2, 3},
     edges |-> {<<0, 1>>, <<0, 2>>, <<1, 3>>, <<2, 3>>}]

\* The direct predecessors of a task in the snapshot.
SnapshotDeps(t) == {e[1] : e \in {x \in snapshot.edges : x[2] = t}}

\* C13: ready_tasks() is exactly the set of still-tracked tasks whose direct
\* predecessors in the snapshot are all completed (initially the tasks
\* without predecessors); on the diamond snapshot ready is {A} at first,
\* completing A returns {B, C}, then B returns {}, then C returns {D}.
C13_ReadyIsAllDepsCompleted ==
    task_execution.some =>
        /\ ready_tasks(Outstanding)
               = {t \in snapshot.nodes \ completed : SnapshotDeps(t) \subseteq completed}
        /\ snapshot = Diamond =>
               /\ completed = {} => ready_tasks(Outstanding) = {0}
               /\ (completed = {0} /\ lastTask.task = 0 /\ lastTask.outcome = "ok")
                      => lastTask.returned = {1, 2}
               /\ (completed = {0, 1} /\ lastTask.task = 1 /\ lastTask.outcome = "ok")
                      => lastTask.returned = {}
               /\ (completed = {0, 1, 2} /\ lastTask.task = 2 /\ lastTask.outcome = "ok")
                      => lastTask.returned = {3}

\* On the diamond snapshot A, B and C are completed, C last, and D is ready.
C13_Witness ==
    /\ snapshot = Diamond
    /\ completed = {0, 1, 2}
    /\ lastTask.task = 2 /\ lastTask.outcome = "ok"
    /\ lastTask.returned = {3}
    /\ ready_tasks(Outstanding) = {3}

\* C14: complete_task(id) for an id that is not tracked (already completed,
\* or never in the snapshot) reports an error to the caller, leaves the
\* tracker as it was, and the tracker stays usable.
C14_UntrackedIsRecoverable ==
    [][(lastTask' # lastTask /\ lastTask'.op = "complete_task"
           /\ lastTask'.task \notin Tracked)
          => (~panicked' /\ task_execution' = task_execution)]_vars

Place(order, n) ==
    IF \E i \in 1 .. Len(order) : order[i] = n
    THEN CHOOSE i \in 1 .. Len(order) : order[i] = n
    ELSE 0

\* C16: evaluate visits every node exactly once, and a node only after every
\* node that has a wire into one of its inputs: whatever order the visitor
\* produces on a reachable graph, it is a topological order of the wires.
C16_VisitIsTopological ==
    \A order \in Topo(as_petgraph(snarl)) :
        /\ Len(order) = Cardinality(node_ids(snarl))
        /\ \A n \in node_ids(snarl) : Place(order, n) > 0
        /\ \A w \in snarl.wires : Place(order, w.from) < Place(order, w.to)

\* An evaluation ran on a graph where two different nodes are wired into
\* the inputs of a third.
C16_Witness ==
    /\ lastOp.op \in {"evaluate", "connect", "set_value"} /\ lastOp.outcome = "ok"
    /\ \E n \in node_ids(snarl) :
           Cardinality({w.from : w \in {x \in snarl.wires : x.to = n}}) = 2

\* C17: evaluate has no effect beyond the cached results: for every seed it
\* leaves the nodes' variants, the wires and the literals of Number and
\* String nodes as they are; only the result of an Add node may change.
C17_EvaluateFrame ==
    \A start \in node_ids(snarl) \cup {NoNode} :
        \A r \in evaluate(snarl, start) :
            /\ r.snarl.wires = snarl.wires
            /\ \A n \in NodeIds :
                   /\ r.snarl.nodes[n].kind = snarl.nodes[n].kind
                   /\ snarl.nodes[n].kind # "Add"
                          => r.snarl.nodes[n].val = snarl.nodes[n].val

\* A graph on which evaluate changes the result of an Add node, and which
\* holds a Number and a String with non-zero literals.
C17_Witness ==
    /\ \E r \in evaluate(snarl, NoNode) : r.snarl # snarl
    /\ \E n \in node_ids(snarl) : Kind(n) = "Number" /\ snarl.nodes[n].val > 0
    /\ \E n \in node_ids(snarl) : Kind(n) = "String" /\ snarl.nodes[n].val > 0

\* The wires after the wire from -> (to, input) takes the place of whatever
\* occupies that input.
Replaced(wires, from, to, input) ==
    {w \in wires : ~(w.to = to /\ w.input = input)} \cup {Wire(from, to, input)}

\* C18: a connect that succeeds removes the wire that occupied the input,
\* adds the new wire and leaves every other wire alone; and a connect
\* succeeds exactly when the graph with the old wire removed and the new one
\* added has no cycle (a rejected one is exactly when it has).
C18_ConnectReplaces ==
    [][lastOp'.op = "connect" /\ lastOp'.outcome \in {"ok", "cycle"}
          => LET from == lastOp'.from
                 to == lastOp'.to
                 input == lastOp'.input
                 after == Replaced(snarl.wires, from, to, input)
                 cyclic == is_cyclic_directed(
                               as_petgraph([snarl EXCEPT !.wires = after]))
             IN /\ lastOp'.outcome = "ok" => snarl'.wires = after /\ ~cyclic
                /\ lastOp'.outcome = "cycle" => snarl'.wires = snarl.wires /\ cyclic]_vars

\* A connect succeeded onto an input that another node occupied, on a node
\* whose other input is wired too: the old wire is gone, the new one is
\* there, and the wire into the other input is still there.
C18_Witness ==
    /\ lastOp.op = "connect" /\ lastOp.outcome = "ok"
    /\ \E old \in lastOp.remotes :
           /\ old # lastOp.from
           /\ Wire(old, lastOp.to, lastOp.input) \notin snarl.wires
    /\ Wire(lastOp.from, lastOp.to, lastOp.input) \in snarl.wires
    /\ \E w \in snarl.wires : w.to = lastOp.to /\ w.input # lastOp.input

\* C19: tracker monotonicity. Across every complete_task call no task becomes
\* tracked, the set of every task that stays tracked only shrinks, a ready
\* task is ready afterwards unless it is the one completed, and a completed
\* task stays completed and untracked.
C19_Monotone ==
    [][/\ Tracked' \subseteq Tracked
       /\ \A t \in Tracked' : Outstanding'[t] \subseteq Outstanding[t]
       /\ \A t \in ready_tasks(Outstanding) :
              \/ t \in ready_tasks(Outstanding')
              \/ t = lastTask'.task /\ t \in completed' /\ t \notin Tracked'
       /\ completed \subseteq completed'
       /\ completed' \cap Tracked' = {}]_vars

\* After two calls a task that was ready in the snapshot is still ready and
\* tracked, and another task has lost one dependency and waits for another.
C19_Witness ==
    /\ lastTask.op = "complete_task" /\ lastTask.outcome = "ok"
    /\ Cardinality(completed) = 2
    /\ \E t \in Tracked : SnapshotDeps(t) = {} /\ Outstanding[t] = {}
    /\ \E u \in Tracked : Outstanding[u] # {} /\ Outstanding[u] # SnapshotDeps(u)

\* C20: deadlock freedom of the tracker. For a tracker built from an acyclic
\* snapshot, in every state reached by complete_task calls some task is ready
\* as long as some task is tracked, and a caller that keeps completing a
\* ready task eventually empties the tracker.
C20_DeadlockFree ==
    /\ [](Tracked # {} => ready_tasks(Outstanding) # {})
    /\ <>(Tracked = {})

\* A tracker built from a snapshot of at least three tasks, one of them with
\* two dependencies, has been emptied.
C20_Witness ==
    /\ lastTask.op = "complete_task" /\ lastTask.outcome = "ok"
    /\ Tracked = {}
    /\ completed = snapshot.nodes
    /\ Cardinality(snapshot.nodes) >= 3
    /\ \E t \in snapshot.nodes : Cardinality(SnapshotDeps(t)) >= 2

\* C21: evaluation is deterministic in its result. On every reachable graph,
\* whichever order the visitor picks among the nodes whose predecessors are
\* visited, evaluate ends with the same values in all nodes (and the same
\* wires and variants): all its outcomes are equal.
C21_EvaluateDeterministic ==
    \A start \in node_ids(snarl) \cup {NoNode} :
        \A r1 \in evaluate(snarl, start) : \A r2 \in evaluate(snarl, start) :
            r1 = r2

\* A graph the visitor can walk in more than one order, on which evaluate
\* changes the result of an Add node.
C21_Witness ==
    /\ Cardinality(Topo(as_petgraph(snarl))) >= 2
    /\ \E w \in snarl.wires : Kind(w.to) = "Add"
    /\ \E r \in evaluate(snarl, NoNode) : ~r.panic /\ r.snarl # snarl

\* C22: in the task status view a node is shown as Completed only if
\* complete_task was called for it since the tracker was constructed; a node
\* that was not in the snapshot is never shown as Completed.
C22_CompletedOnlyIfCompleted ==
    /\ shown_completed(snarl, task_execution) \subseteq completed
    /\ shown_completed(snarl, task_execution) \subseteq snapshot.nodes

====
